---- MODULE Spec2Model ----
(***************************************************************************)
(* A model of beanstalkc.py: one Connection shared by several threads, the *)
(* Job handles it hands out, and the beanstalkd server it talks to.        *)
(*                                                                         *)
(* Every step of a thread is one statement (or one blocking call) of the   *)
(* source; the position of a thread is th[t].pc, named after the line it   *)
(* is about to execute.                                                    *)
(***************************************************************************)
EXTENDS Integers, Sequences, FiniteSets, TLC

(***************************************************************************)
(* Bounds of the model.                                                    *)
(***************************************************************************)
\* stream failures (failed connect, failed send, failed read) in one run
MaxFaults == 1
\* job ids the server hands out
MaxJobs == 1
\* Job objects the client creates (reserve, peek)
MaxHandles == 1
\* direct calls of connect() and close() in one run
MaxDirect == 1
\* close() calls in one run
MaxCloses == 2
\* bytes in a job body
MaxBody == 2

Threads == {1, 2}
JobIds == 1..MaxJobs
\* math.pow(2.0, n) raises OverflowError from this n on (IEEE 754 double)
MaxExponent == 1024
\* DEFAULT_TTR, line 32
DEFAULT_TTR == 120
\* DEFAULT_TIMEOUT, line 33, and DEFAULT_UPPER_BACKOFF_BOUND, line 34, in
\* milliseconds
DEFAULT_TIMEOUT == 50
DEFAULT_UPPER_BACKOFF_BOUND == 30000

(***************************************************************************)
(* Inputs.                                                                 *)
(***************************************************************************)
\* priority=None (Job.release, Job.bury)
NoPriority == -1
Priorities == {0, 7}
\* the bodies a caller puts: one the server takes, one over its max-job-size
TooBig == <<"a", "a">>
Bodies == {<<"a">>, TooBig}
\* tube names; beanstalkd rejects a name starting with a hyphen
TubeNames == {"default", "x", "-bad"}
ValidTube(name) == name # "-bad"
\* reconnect_strategy: None, or a strategy name ('constant' differs from
\* 'exp_backoff' in the time slept only)
Strategies == {"None", "exp_backoff"}

VARIABLES
    \* ---- Connection (beanstalkc.py:47-66)
    _socket,                \* 0 is None, else the id of a socket object
    _socket_file,           \* 0 is unset, else the socket the file reads from
    tube,
    lock,                   \* 0 is free, else the thread holding self.lock
    unsuccessful_connects,
    reconnect_strategy,
    \* ---- socket objects
    sockState,              \* socket objects created so far, in order:
                            \* "fresh" | "connected" | "closed"
    \* ---- Job objects (beanstalkc.py:303-308), in creation order
    jobs,
    \* ---- threads
    th,
    \* ---- the beanstalkd server
    srvJobs,                \* jid -> [st, pri, body]
    srvConn,                \* the socket the server's live connection is on
    inflight,               \* the reply written to srvConn and not yet read
    \* ---- history
    confirmed,              \* the last tube a USING reply named
    faults,                 \* stream failures still to come
    directs                 \* direct calls of connect(), close() still to come

vars == <<_socket, _socket_file, tube, lock, unsuccessful_connects,
          reconnect_strategy, sockState, jobs, th, srvJobs, srvConn,
          inflight, confirmed, faults, directs>>

connVars == <<_socket, _socket_file, unsuccessful_connects, sockState>>
srvVars == <<srvJobs, srvConn, inflight>>

(***************************************************************************)
(* Commands, replies, results.                                             *)
(***************************************************************************)
NoCmd == [name |-> "", jid |-> 0, pri |-> 0, delay |-> 0, tube |-> "",
          body |-> <<>>]
Cmd(name, jid, pri, tubeName, body) ==
    [name |-> name, jid |-> jid, pri |-> pri, delay |-> 0, tube |-> tubeName,
     body |-> body]

NoReply == [sock |-> 0, status |-> "", results |-> <<>>, body |-> <<>>]
Reply(status, results, body) ==
    [sock |-> 0, status |-> status, results |-> results, body |-> body]

\* How a call ends.  interact: "return" when _interact returned its list,
\* else the exception it raised; kind: the same for what the public method
\* hands its caller; both "none" while the call runs.
NoRes == [kind |-> "none", interact |-> "none", command |-> "", status |-> "",
          results |-> <<>>, body |-> <<>>]

\* the state of a thread that is in no call, and of one that was never started
\* op: the method called; cmd: the command of its _interact; then: the
\* command of the _interact that follows; h: the Job it was called on.
\* History of the call: arg, the tube or priority it was given; was, what
\* the method found in the field it tests first (self.tube, self.reserved);
\* gone, whether the server had deleted the job by then; ints, the calls of
\* _interact; sends, those of sendall; sock, the socket of the last; fails,
\* the socket.errors caught at line 133.
Idle == [pc |-> "idle", op |-> "", cmd |-> NoCmd, then |-> NoCmd, h |-> 0,
         arg |-> 0, was |-> FALSE, gone |-> FALSE, res |-> NoRes, ints |-> 0,
         sends |-> 0, sock |-> 0, fails |-> 0]
Off == [Idle EXCEPT !.pc = "off"]

\* The expected_ok, expected_err and size_field of each command, as the public
\* interface passes them to _interact.
expected_ok(name) ==
    CASE name = "put" -> {"INSERTED", "BURIED"}
      [] name \in {"reserve", "reserve-with-timeout"} -> {"RESERVED"}
      [] name = "peek" -> {"FOUND"}
      [] name = "use" -> {"USING"}
      [] name = "stats" -> {"OK"}
      [] name = "delete" -> {"DELETED"}
      [] name = "release" -> {"RELEASED", "BURIED"}
      [] name = "bury" -> {"BURIED"}
      [] name = "touch" -> {"TOUCHED"}
      [] name = "stats-job" -> {"OK"}
      [] OTHER -> {}

expected_err(name) ==
    CASE name = "put" -> {"JOB_TOO_BIG"}
      [] name \in {"reserve", "reserve-with-timeout"} ->
            {"DEADLINE_SOON", "TIMED_OUT"}
      [] name \in {"peek", "delete", "release", "bury", "touch", "stats-job"} ->
            {"NOT_FOUND"}
      [] OTHER -> {}

\* 0 is size_field=None; else the 1-based place of the size in results
size_field(name) ==
    CASE name \in {"reserve", "reserve-with-timeout", "peek"} -> 2
      [] name \in {"stats", "stats-job"} -> 1
      [] OTHER -> 0


(***************************************************************************)
(* The beanstalkd server, as the statuses the public interface expects     *)
(* describe it.  A job is unborn, ready, reserved (by the live             *)
(* connection), buried or deleted.                                         *)
(***************************************************************************)
NoJob(st) == [st |-> st, pri |-> 0, body |-> <<>>]
Live(J, j) == j \in JobIds /\ J[j].st \in {"ready", "reserved", "buried"}
Reserved(J, j) == j \in JobIds /\ J[j].st = "reserved"
Unborn(J) == {j \in JobIds : J[j].st = "unborn"}
MinOf(S) == CHOOSE j \in S : \A k \in S : j <= k

\* a connection that ends gives its reserved jobs back to the ready queue
ServerDrop(J) ==
    [j \in JobIds |-> IF J[j].st = "reserved"
                      THEN [J[j] EXCEPT !.st = "ready"] ELSE J[j]]

Outcome(J, reply) == [jobs |-> J, reply |-> reply]

\* The replies the server may give to command c in state J, each with the
\* state it leaves.  The empty set: the server does not answer (a reserve
\* with nothing to hand out blocks).
ServerReplies(c, J) ==
    CASE c.name = "put" ->
            IF c.body = TooBig
            THEN {Outcome(J, Reply("JOB_TOO_BIG", <<>>, <<>>))}
            ELSE {Outcome(J, Reply("DRAINING", <<>>, <<>>))}
                 \cup
                 (IF Unborn(J) = {} THEN {}
                  ELSE LET j == MinOf(Unborn(J))
                       IN {Outcome([J EXCEPT ![j] = [st |-> "ready",
                                                    pri |-> c.pri,
                                                    body |-> c.body]],
                                   Reply("INSERTED", <<j>>, <<>>))})
      [] c.name \in {"reserve", "reserve-with-timeout"} ->
            {Outcome([J EXCEPT ![j].st = "reserved"],
                     Reply("RESERVED", <<j, Len(J[j].body)>>, J[j].body)) :
                j \in {k \in JobIds : J[k].st = "ready"}}
            \cup
            (IF \E k \in JobIds : J[k].st = "reserved"
             THEN {Outcome(J, Reply("DEADLINE_SOON", <<>>, <<>>))} ELSE {})
            \cup
            (IF c.name = "reserve-with-timeout"
                /\ \A k \in JobIds : J[k].st # "ready"
             THEN {Outcome(J, Reply("TIMED_OUT", <<>>, <<>>))} ELSE {})
      [] c.name = "peek" ->
            IF Live(J, c.jid)
            THEN {Outcome(J, Reply("FOUND",
                                   <<c.jid, Len(J[c.jid].body)>>,
                                   J[c.jid].body))}
            ELSE {Outcome(J, Reply("NOT_FOUND", <<>>, <<>>))}
      [] c.name = "use" ->
            IF ValidTube(c.tube)
            THEN {Outcome(J, Reply("USING", <<c.tube>>, <<>>))}
            ELSE {Outcome(J, Reply("BAD_FORMAT", <<>>, <<>>))}
      [] c.name = "delete" ->
            IF Live(J, c.jid)
            THEN {Outcome([J EXCEPT ![c.jid] = NoJob("deleted")],
                          Reply("DELETED", <<>>, <<>>))}
            ELSE {Outcome(J, Reply("NOT_FOUND", <<>>, <<>>))}
      [] c.name = "release" ->
            IF Reserved(J, c.jid)
            THEN {Outcome([J EXCEPT ![c.jid].st = "ready",
                                    ![c.jid].pri = c.pri],
                          Reply("RELEASED", <<>>, <<>>))}
            ELSE {Outcome(J, Reply("NOT_FOUND", <<>>, <<>>))}
      [] c.name = "bury" ->
            IF Reserved(J, c.jid)
            THEN {Outcome([J EXCEPT ![c.jid].st = "buried",
                                    ![c.jid].pri = c.pri],
                          Reply("BURIED", <<>>, <<>>))}
            ELSE {Outcome(J, Reply("NOT_FOUND", <<>>, <<>>))}
      [] c.name = "touch" ->
            IF Reserved(J, c.jid)
            THEN {Outcome(J, Reply("TOUCHED", <<>>, <<>>))}
            ELSE {Outcome(J, Reply("NOT_FOUND", <<>>, <<>>))}
      [] c.name = "stats" ->
            {Outcome(J, Reply("OK", <<1>>, <<0>>))}
      [] c.name = "stats-job" ->
            IF Live(J, c.jid)
            THEN {Outcome(J, Reply("OK", <<1>>, <<J[c.jid].pri>>))}
            ELSE {Outcome(J, Reply("NOT_FOUND", <<>>, <<>>))}
      [] OTHER -> {Outcome(J, Reply("UNKNOWN_COMMAND", <<>>, <<>>))}

(***************************************************************************)
(* The state after Connection.__init__ (beanstalkc.py:47-66): with no      *)
(* reconnect strategy the constructor has connected, with one the caller   *)
(* has yet to.                                                             *)
(***************************************************************************)
Constructed ==
    /\ reconnect_strategy \in Strategies
    /\ _socket = IF reconnect_strategy = "None" THEN 1 ELSE 0
    /\ _socket_file = _socket
    /\ sockState = IF _socket = 0 THEN <<>> ELSE <<"connected">>
    /\ tube = "default"
    /\ lock = 0
    /\ unsuccessful_connects = 0
    /\ jobs = <<>>
    /\ srvJobs = [j \in JobIds |-> NoJob("unborn")]
    /\ srvConn = _socket
    /\ inflight = NoReply
    /\ confirmed = "default"

\* one thread uses the Connection
Init ==
    /\ Constructed
    /\ faults = MaxFaults
    /\ directs = 0
    /\ th = [t \in Threads |-> IF t = 1 THEN Idle ELSE Off]

\* every thread uses it
InitThreads ==
    /\ Constructed
    /\ faults = MaxFaults
    /\ directs = 0
    /\ th = [t \in Threads |-> Idle]


(***************************************************************************)
(* Connection.connect (beanstalkc.py:83-100).  A thread is in connect()    *)
(* either from _interact (line 121) or, with op "connect", from a direct   *)
(* call.                                                                   *)
(***************************************************************************)
Direct(t) == th[t].op \in {"connect", "close"}
AfterConnect(t) == IF th[t].op = "connect" THEN "done" ELSE "send"
AfterClose(t) == IF th[t].op = "close" THEN "done" ELSE "connect"

\* line 78: math.pow(2.0, self.unsuccessful_connects) raises OverflowError
\* (math range error)
_current_wait_time_raises ==
    /\ reconnect_strategy = "exp_backoff"
    /\ unsuccessful_connects >= MaxExponent

\* the jitter r of line 75, random.uniform(1.0, 2.0), in tenths
Jitters == {10, 15, 20}
\* x doubled n times, as far as the min of line 77 can tell it from
\* limit: doubling stops once limit is reached
RECURSIVE Doubled(_, _, _)
Doubled(x, n, limit) ==
    IF n = 0 \/ x >= limit THEN x ELSE Doubled(2 * x, n - 1, limit)
\* lines 71, 74-78 with the default connection_timeout and
\* upper_backoff_bound, for jitter r: whether math.pow raises, and else the
\* time returned, in tenths of a millisecond
_current_wait_time(r) ==
    [raises |-> _current_wait_time_raises,
     time |-> LET bound == 10 * DEFAULT_UPPER_BACKOFF_BOUND
                  x == Doubled(r * DEFAULT_TIMEOUT, unsuccessful_connects,
                               bound)
              IN IF x < bound THEN x ELSE bound]

\* Connection.closed (beanstalkc.py:114-116)
closed == _socket = 0

\* line 85-86: if not self.closed: return
ConnectEnter(t) ==
    /\ th[t].pc = "connect"
    /\ th' = [th EXCEPT ![t].pc = IF ~closed THEN AfterConnect(t)
                                  ELSE "c_create",
                        ![t].res.kind = IF ~closed /\ Direct(t) THEN "return"
                                        ELSE @]
    /\ UNCHANGED <<connVars, tube, lock, reconnect_strategy, jobs, srvVars,
                   confirmed, faults, directs>>

\* lines 89-92: the sleep of a retry, then a new socket object in
\* self._socket; lines 90 and 92 call _current_wait_time
ConnCreate(t) ==
    /\ th[t].pc = "c_create"
    /\ ~_current_wait_time_raises
    /\ _socket' = Len(sockState) + 1
    /\ sockState' = Append(sockState, "fresh")
    /\ th' = [th EXCEPT ![t].pc = "c_connect"]
    /\ UNCHANGED <<_socket_file, unsuccessful_connects, tube, lock,
                   reconnect_strategy, jobs, srvVars, confirmed, faults,
                   directs>>

\* line 93 succeeds: the server has a new connection, and the one before it,
\* if it still stood, is over
ConnConnectOk(t) ==
    /\ th[t].pc = "c_connect"
    /\ ~closed
    /\ sockState[_socket] = "fresh"
    /\ sockState' = [sockState EXCEPT ![_socket] = "connected"]
    /\ srvConn' = _socket
    /\ srvJobs' = ServerDrop(srvJobs)
    /\ inflight' = NoReply
    /\ th' = [th EXCEPT ![t].pc = "c_finish"]
    /\ UNCHANGED <<_socket, _socket_file, unsuccessful_connects, tube, lock,
                   reconnect_strategy, jobs, confirmed, faults, directs>>

\* lines 98-100: except socket.error
ConnectError(t) ==
    /\ unsuccessful_connects' = unsuccessful_connects + 1
    /\ _socket' = 0
    /\ th' = [th EXCEPT ![t].pc = "c_create"]

\* line 93 raises socket.error
ConnConnectFail(t) ==
    /\ th[t].pc = "c_connect"
    /\ ~closed
    /\ sockState[_socket] = "fresh"
    /\ faults > 0
    /\ faults' = faults - 1
    /\ ConnectError(t)
    /\ UNCHANGED <<_socket_file, sockState, tube, lock, reconnect_strategy,
                   jobs, srvVars, confirmed, directs>>

\* lines 94-97: settimeout(None), makefile, the counter reset, return; none
\* of them asks whether the socket in self._socket is the one line 93
\* connected
ConnFinish(t) ==
    /\ th[t].pc = "c_finish"
    /\ ~closed
    /\ sockState[_socket] # "closed"
    /\ _socket_file' = _socket
    /\ unsuccessful_connects' = 0
    /\ th' = [th EXCEPT ![t].pc = AfterConnect(t),
                        ![t].res.kind = IF Direct(t) THEN "return" ELSE @]
    /\ UNCHANGED <<_socket, sockState, tube, lock, reconnect_strategy, jobs,
                   srvVars, confirmed, faults, directs>>

(***************************************************************************)
(* Connection.close (beanstalkc.py:102-112), from _interact (line 134) or, *)
(* with op "close", from a direct call.                                    *)
(***************************************************************************)
\* close without the test of lines 104-105
CloseEnter_unchecked(t) ==
    /\ th[t].pc = "close"
    /\ th' = [th EXCEPT ![t].pc = "cl_quit"]
    /\ UNCHANGED <<connVars, tube, lock, reconnect_strategy, jobs, srvVars,
                   confirmed, faults, directs>>

\* line 104-105: if self.closed: return
CloseEnter(t) ==
    /\ th[t].pc = "close"
    /\ th' = [th EXCEPT ![t].pc = IF closed THEN AfterClose(t) ELSE "cl_quit",
                        ![t].res.kind = IF closed /\ Direct(t) THEN "return"
                                        ELSE @]
    /\ UNCHANGED <<connVars, tube, lock, reconnect_strategy, jobs, srvVars,
                   confirmed, faults, directs>>

\* line 107 succeeds: the server reads quit and ends the connection; what it
\* wrote before stays readable
CloseQuitOk(t) ==
    /\ th[t].pc = "cl_quit"
    /\ ~closed
    /\ sockState[_socket] = "connected"
    /\ IF srvConn = _socket
       THEN /\ srvConn' = 0
            /\ srvJobs' = ServerDrop(srvJobs)
       ELSE UNCHANGED <<srvConn, srvJobs>>
    /\ UNCHANGED inflight
    /\ th' = [th EXCEPT ![t].pc = "cl_close"]
    /\ UNCHANGED <<connVars, tube, lock, reconnect_strategy, jobs, confirmed,
                   faults, directs>>

\* line 107 raises socket.error: line 108 is skipped
CloseQuitFail(t) ==
    /\ th[t].pc = "cl_quit"
    /\ ~closed
    /\ sockState[_socket] = "connected"
    /\ th' = [th EXCEPT ![t].pc = "cl_finally"]
    /\ UNCHANGED <<connVars, tube, lock, reconnect_strategy, jobs, srvVars,
                   confirmed, faults, directs>>

\* line 108: self._socket.close()
CloseSocket(t) ==
    /\ th[t].pc = "cl_close"
    /\ ~closed
    /\ sockState' = [sockState EXCEPT ![_socket] = "closed"]
    /\ th' = [th EXCEPT ![t].pc = "cl_finally"]
    /\ UNCHANGED <<_socket, _socket_file, unsuccessful_connects, tube, lock,
                   reconnect_strategy, jobs, srvVars, confirmed, faults,
                   directs>>

\* line 108 raises socket.error: line 109 catches it, the socket object is
\* left as it was
CloseSocketFail(t) ==
    /\ th[t].pc = "cl_close"
    /\ ~closed
    /\ faults > 0
    /\ faults' = faults - 1
    /\ th' = [th EXCEPT ![t].pc = "cl_finally"]
    /\ UNCHANGED <<connVars, tube, lock, reconnect_strategy, jobs, srvVars,
                   confirmed, directs>>

\* line 112: finally: self._socket = None
CloseFinally(t) ==
    /\ th[t].pc = "cl_finally"
    /\ _socket' = 0
    /\ th' = [th EXCEPT ![t].pc = AfterClose(t),
                        ![t].res.kind = IF Direct(t) THEN "return" ELSE @]
    /\ UNCHANGED <<_socket_file, unsuccessful_connects, sockState, tube, lock,
                   reconnect_strategy, jobs, srvVars, confirmed, faults,
                   directs>>


(***************************************************************************)
(* Connection._interact (beanstalkc.py:118-134).                           *)
(***************************************************************************)
\* a call of _interact(command, ...): the thread arrives at line 119
Interact(t, c) ==
    [th[t] EXCEPT !.pc = "lock", !.cmd = c, !.res = NoRes, !.ints = @ + 1]

\* line 120 entered without waiting for the lock
Acquire_unlocked(t) ==
    /\ th[t].pc = "lock"
    /\ lock' = t
    /\ th' = [th EXCEPT ![t].pc = "connect"]
    /\ UNCHANGED <<connVars, tube, reconnect_strategy, jobs, srvVars,
                   confirmed, faults, directs>>

\* line 119: with self.lock
Acquire(t) ==
    /\ th[t].pc = "lock"
    /\ lock = 0
    /\ lock' = t
    /\ th' = [th EXCEPT ![t].pc = "connect"]
    /\ UNCHANGED <<connVars, tube, reconnect_strategy, jobs, srvVars,
                   confirmed, faults, directs>>

\* line 123 succeeds: the server reads the command and answers it
SendOk(t) ==
    /\ th[t].pc = "send"
    /\ ~closed
    /\ sockState[_socket] = "connected"
    /\ srvConn = _socket
    /\ LET R == ServerReplies(th[t].cmd, srvJobs)
       IN IF R = {}
          THEN /\ inflight' = NoReply
               /\ UNCHANGED srvJobs
          ELSE \E o \in R :
                  /\ srvJobs' = o.jobs
                  /\ inflight' = [o.reply EXCEPT !.sock = _socket]
    /\ th' = [th EXCEPT ![t].pc = "recv", ![t].sends = @ + 1,
                        ![t].sock = _socket]
    /\ UNCHANGED <<connVars, tube, lock, reconnect_strategy, jobs, srvConn,
                   confirmed, faults, directs>>

\* line 123 raises socket.error: line 133
SendFail(t) ==
    /\ th[t].pc = "send"
    /\ ~closed
    /\ sockState[_socket] = "connected"
    /\ srvConn = _socket
    /\ faults > 0
    /\ faults' = faults - 1
    /\ th' = [th EXCEPT ![t].pc = "close", ![t].sends = @ + 1,
                        ![t].sock = _socket, ![t].fails = @ + 1]
    /\ UNCHANGED <<connVars, tube, lock, reconnect_strategy, jobs, srvVars,
                   confirmed, directs>>

\* the exception or the list that leaves _interact; leaving the with block
\* releases the lock
Result(t, kind, reply) ==
    [kind |-> kind, interact |-> kind, command |-> th[t].cmd.name,
     status |-> reply.status, results |-> reply.results, body |-> reply.body]

\* reserve and peek without their except clauses
Handed_raw(t, res) == res

\* lines 199-203: reserve turns TIMED_OUT into None and DEADLINE_SOON into
\* DeadlineSoon; lines 171-172: peek turns CommandFailed into None
Handed(t, res) ==
    IF res.kind = "CommandFailed" /\ th[t].op \in {"reserve", "peek"}
    THEN [res EXCEPT !.kind = IF th[t].op = "reserve"
                                 /\ res.status = "DEADLINE_SOON"
                              THEN "DeadlineSoon" ELSE "return",
                     !.results = <<>>]
    ELSE res

\* lines 153-156: Job(self, int(jid), body, reserved); consumed is the
\* Job's history: a delete, release or bury on it has returned
NewJob(t, res) ==
    [jid |-> res.results[1], body |-> res.body,
     reserved |-> th[t].op = "reserve", consumed |-> FALSE]
Creates(t, kind) == kind = "return" /\ th[t].op \in {"reserve", "peek"}

\* Job.touch ending as release and bury do, with self.reserved = False
Pending_touch(t, kind) ==
    /\ kind = "return"
    /\ \/ th[t].then # NoCmd
       \/ th[t].op \in {"Job.delete", "Job.release", "Job.bury", "Job.touch"}

\* what is left of the call is a statement on a Job object other threads
\* may hold (lines 321, 326-327, 332-333): a step of its own, from "ret"
Pending(t, kind) ==
    /\ kind = "return"
    /\ \/ th[t].then # NoCmd
       \/ th[t].op \in {"Job.delete", "Job.release", "Job.bury"}

\* _interact left with the lock released by the return only
Exit_leaks(t, kind, reply) ==
    /\ lock' = IF lock = t /\ kind = "return" THEN 0 ELSE lock
    /\ jobs' = IF Creates(t, kind)
                THEN Append(jobs, NewJob(t, Result(t, kind, reply)))
                ELSE jobs
    /\ th' = [th EXCEPT
                ![t].pc = IF Pending(t, kind) THEN "ret" ELSE "done",
                ![t].res = Handed(t, Result(t, kind, reply)),
                ![t].h = IF Creates(t, kind) THEN Len(jobs) + 1 ELSE @]

\* _interact is left, the lock with it, and the public method hands its
\* caller what it makes of the result
Exit(t, kind, reply) ==
    /\ lock' = IF lock = t THEN 0 ELSE lock
    /\ jobs' = IF Creates(t, kind)
                THEN Append(jobs, NewJob(t, Result(t, kind, reply)))
                ELSE jobs
    /\ th' = [th EXCEPT
                ![t].pc = IF Pending(t, kind) THEN "ret" ELSE "done",
                ![t].res = Handed(t, Result(t, kind, reply)),
                ![t].h = IF Creates(t, kind) THEN Len(jobs) + 1 ELSE @]

\* the reply the thread's file object yields at line 137
Readable(t) ==
    /\ _socket_file # 0
    /\ inflight.sock = _socket_file
    /\ inflight.status # ""

\* lines 124-128: the status is in expected_ok; with a size_field the body is
\* read next, without one the results are returned
RecvOk(t) ==
    /\ th[t].pc = "recv"
    /\ Readable(t)
    /\ inflight.status \in expected_ok(th[t].cmd.name)
    /\ IF size_field(th[t].cmd.name) # 0
       THEN /\ th' = [th EXCEPT ![t].pc = "body"]
            /\ UNCHANGED <<lock, jobs, inflight>>
       ELSE /\ Exit(t, "return", inflight)
            /\ inflight' = NoReply
    /\ confirmed' = IF inflight.status = "USING" THEN inflight.results[1]
                    ELSE confirmed
    /\ UNCHANGED <<connVars, tube, reconnect_strategy, srvJobs, srvConn,
                   faults, directs>>

\* lines 129-130: raise CommandFailed(command.split()[0], status, results)
RecvCommandFailed(t) ==
    /\ th[t].pc = "recv"
    /\ Readable(t)
    /\ inflight.status \notin expected_ok(th[t].cmd.name)
    /\ inflight.status \in expected_err(th[t].cmd.name)
    /\ Exit(t, "CommandFailed", inflight)
    /\ inflight' = NoReply
    /\ UNCHANGED <<connVars, tube, reconnect_strategy, srvJobs, srvConn,
                   confirmed, faults, directs>>

\* UnexpectedResponse raised with the connection dropped
RecvUnexpected_closes(t) ==
    /\ th[t].pc = "recv"
    /\ Readable(t)
    /\ inflight.status \notin expected_ok(th[t].cmd.name)
    /\ inflight.status \notin expected_err(th[t].cmd.name)
    /\ Exit(t, "UnexpectedResponse", inflight)
    /\ inflight' = NoReply
    /\ _socket' = 0
    /\ UNCHANGED <<_socket_file, unsuccessful_connects, sockState, tube,
                   reconnect_strategy, srvJobs, srvConn, confirmed, faults,
                   directs>>

\* lines 131-132: raise UnexpectedResponse(command.split()[0], status, results)
RecvUnexpected(t) ==
    /\ th[t].pc = "recv"
    /\ Readable(t)
    /\ inflight.status \notin expected_ok(th[t].cmd.name)
    /\ inflight.status \notin expected_err(th[t].cmd.name)
    /\ Exit(t, "UnexpectedResponse", inflight)
    /\ inflight' = NoReply
    /\ UNCHANGED <<connVars, tube, reconnect_strategy, srvJobs, srvConn,
                   confirmed, faults, directs>>

\* line 124: _read_response raises socket.error (lines 138-139, or the read
\* itself): line 133
RecvFail(t) ==
    /\ th[t].pc = "recv"
    /\ _socket_file = srvConn
    /\ faults > 0
    /\ faults' = faults - 1
    /\ inflight' = NoReply
    /\ th' = [th EXCEPT ![t].pc = "close", ![t].fails = @ + 1]
    /\ UNCHANGED <<connVars, tube, lock, reconnect_strategy, jobs, srvJobs,
                   srvConn, confirmed, directs>>

\* line 127: results.append(self._read_body(int(results[size_field]))), and
\* line 128
ReadBodyOk(t) ==
    /\ th[t].pc = "body"
    /\ Readable(t)
    /\ Exit(t, "return", inflight)
    /\ inflight' = NoReply
    /\ UNCHANGED <<connVars, tube, reconnect_strategy, srvJobs, srvConn,
                   confirmed, faults, directs>>

\* line 127: _read_body raises socket.error (lines 146-147): line 133
ReadBodyFail(t) ==
    /\ th[t].pc = "body"
    /\ Readable(t)
    /\ inflight.results[size_field(th[t].cmd.name)] > 0
    /\ faults > 0
    /\ faults' = faults - 1
    /\ inflight' = NoReply
    /\ th' = [th EXCEPT ![t].pc = "close", ![t].fails = @ + 1]
    /\ UNCHANGED <<connVars, tube, lock, reconnect_strategy, jobs, srvJobs,
                   srvConn, confirmed, directs>>


(***************************************************************************)
(* The public interface of Connection (beanstalkc.py:176-300) and of Job   *)
(* (beanstalkc.py:303-343).  A call starts in an idle thread; when its     *)
(* call has returned or raised the thread is at "done", with the outcome   *)
(* in th[t].res.                                                           *)
(***************************************************************************)
PutPriorities == {7}
ReleasePriorities == {NoPriority} \cup Priorities

Begin(t, op) == [Idle EXCEPT !.op = op]
Starts(t, op, c) == [Begin(t, op) EXCEPT !.pc = "lock", !.cmd = c, !.ints = 1]
\* a call that returns without an _interact
NoOp(t, op) == [Begin(t, op) EXCEPT !.pc = "done", !.res.kind = "return"]

Handles == 1..Len(jobs)
\* Job objects there is still room for
Creating == {u \in Threads : th[u].op \in {"reserve", "peek"}}
Room == Len(jobs) + Cardinality(Creating) < MaxHandles

\* use without the test of line 236
use_always(t, name) ==
    [tube |-> name, th |-> Starts(t, "use", Cmd("use", 0, 0, name, <<>>))]

\* Connection.use, lines 236-238: the new self.tube and the thread on its way
use(t, name) ==
    IF tube # name
    THEN [tube |-> name,
          th |-> Starts(t, "use", Cmd("use", 0, 0, name, <<>>))]
    ELSE [tube |-> tube, th |-> NoOp(t, "use")]

Use(t) ==
    /\ th[t].pc = "idle"
    /\ \E name \in TubeNames :
          /\ tube' = use(t, name).tube
          /\ th' = [th EXCEPT ![t] = [use(t, name).th EXCEPT !.arg = name,
                                                             !.was = tube]]
    /\ UNCHANGED <<connVars, lock, reconnect_strategy, jobs, srvVars,
                   confirmed, faults, directs>>

\* Connection.put with tube=None, lines 176-186
Put(t) ==
    /\ th[t].pc = "idle"
    /\ \E body \in Bodies, priority \in PutPriorities :
          th' = [th EXCEPT ![t] =
                    Starts(t, "put", Cmd("put", 0, priority, "", body))]
    /\ UNCHANGED <<connVars, tube, lock, reconnect_strategy, jobs, srvVars,
                   confirmed, faults, directs>>

\* no job is ready and no failure is left that would make the server take a
\* reserved job back: a reserve hands out no job, so creates no Job object
NoneReady == faults = 0 /\ \A k \in JobIds : srvJobs[k].st # "ready"

\* Connection.reserve, lines 188-198
Reserve(t) ==
    /\ th[t].pc = "idle"
    /\ Room \/ NoneReady
    /\ \E name \in {"reserve", "reserve-with-timeout"} :
          th' = [th EXCEPT ![t] =
                    Starts(t, "reserve", Cmd(name, 0, 0, "", <<>>))]
    /\ UNCHANGED <<connVars, tube, lock, reconnect_strategy, jobs, srvVars,
                   confirmed, faults, directs>>

\* Connection.peek, lines 209-211, 168-170
Peek(t) ==
    /\ th[t].pc = "idle"
    /\ Room
    /\ \E jid \in JobIds :
          th' = [th EXCEPT ![t] =
                    Starts(t, "peek", Cmd("peek", jid, 0, "", <<>>))]
    /\ UNCHANGED <<connVars, tube, lock, reconnect_strategy, jobs, srvVars,
                   confirmed, faults, directs>>

\* Connection.delete, lines 275-277
Delete(t) ==
    /\ th[t].pc = "idle"
    /\ \E jid \in JobIds :
          th' = [th EXCEPT ![t] =
                    Starts(t, "delete", Cmd("delete", jid, 0, "", <<>>))]
    /\ UNCHANGED <<connVars, tube, lock, reconnect_strategy, jobs, srvVars,
                   confirmed, faults, directs>>

\* Connection.stats, lines 257-259
Stats(t) ==
    /\ th[t].pc = "idle"
    /\ th' = [th EXCEPT ![t] =
                 Starts(t, "stats", Cmd("stats", 0, 0, "", <<>>))]
    /\ UNCHANGED <<connVars, tube, lock, reconnect_strategy, jobs, srvVars,
                   confirmed, faults, directs>>

\* Job.delete with the test release and bury make
delete_if_reserved(t, h) ==
    IF jobs[h].reserved
    THEN Starts(t, "Job.delete", Cmd("delete", jobs[h].jid, 0, "", <<>>))
    ELSE NoOp(t, "Job.delete")

\* Job.delete, line 320, and Connection.delete, lines 275-277
delete(t, h) ==
    Starts(t, "Job.delete", Cmd("delete", jobs[h].jid, 0, "", <<>>))

\* the call on Job h, with its history
OnJob(t, h, priority, call) ==
    [call EXCEPT !.h = h, !.arg = priority, !.was = jobs[h].reserved,
                 !.gone = srvJobs[jobs[h].jid].st = "deleted"]

JobDelete(t, h) ==
    /\ th[t].pc = "idle"
    /\ th' = [th EXCEPT ![t] = OnJob(t, h, 0, delete(t, h))]
    /\ UNCHANGED <<connVars, tube, lock, reconnect_strategy, jobs, srvVars,
                   confirmed, faults, directs>>

\* `priority or self._priority()`: None and 0 are both false
Falsy(priority) == priority = NoPriority \/ priority = 0

\* release and bury without the test of lines 325 and 331
Forward_unchecked(t, op, command, h, priority) ==
    IF Falsy(priority)
    THEN [Starts(t, op, Cmd("stats-job", jobs[h].jid, 0, "", <<>>))
            EXCEPT !.then = Cmd(command, jobs[h].jid, 0, "", <<>>)]
    ELSE Starts(t, op, Cmd(command, jobs[h].jid, priority, "", <<>>))

\* Job.release, lines 325-326, and Job.bury, lines 331-332: nothing unless
\* reserved; Job._priority, lines 310-314, asks stats-job first
Forward(t, op, command, h, priority) ==
    IF jobs[h].reserved
    THEN IF Falsy(priority)
         THEN [Starts(t, op, Cmd("stats-job", jobs[h].jid, 0, "", <<>>))
                 EXCEPT !.then = Cmd(command, jobs[h].jid, 0, "", <<>>)]
         ELSE Starts(t, op, Cmd(command, jobs[h].jid, priority, "", <<>>))
    ELSE NoOp(t, op)

JobRelease(t, h) ==
    /\ th[t].pc = "idle"
    /\ \E priority \in ReleasePriorities :
          th' = [th EXCEPT ![t] =
                    OnJob(t, h, priority,
                          Forward(t, "Job.release", "release", h, priority))]
    /\ UNCHANGED <<connVars, tube, lock, reconnect_strategy, jobs, srvVars,
                   confirmed, faults, directs>>

JobBury(t, h) ==
    /\ th[t].pc = "idle"
    /\ \E priority \in ReleasePriorities :
          th' = [th EXCEPT ![t] =
                    OnJob(t, h, priority,
                          Forward(t, "Job.bury", "bury", h, priority))]
    /\ UNCHANGED <<connVars, tube, lock, reconnect_strategy, jobs, srvVars,
                   confirmed, faults, directs>>

\* Job.touch, lines 338-339
touch(t, h) ==
    IF jobs[h].reserved
    THEN Starts(t, "Job.touch", Cmd("touch", jobs[h].jid, 0, "", <<>>))
    ELSE NoOp(t, "Job.touch")

JobTouch(t, h) ==
    /\ th[t].pc = "idle"
    /\ th' = [th EXCEPT ![t] = OnJob(t, h, 0, touch(t, h))]
    /\ UNCHANGED <<connVars, tube, lock, reconnect_strategy, jobs, srvVars,
                   confirmed, faults, directs>>

\* Job.stats, line 343, and Connection.stats_job, lines 296-300
JobStats(t, h) ==
    /\ th[t].pc = "idle"
    /\ th' = [th EXCEPT ![t] =
                 OnJob(t, h, 0,
                       Starts(t, "Job.stats",
                              Cmd("stats-job", jobs[h].jid, 0, "", <<>>)))]
    /\ UNCHANGED <<connVars, tube, lock, reconnect_strategy, jobs, srvVars,
                   confirmed, faults, directs>>

(***************************************************************************)
(* What Job's methods do when their _interact has returned.                *)
(***************************************************************************)
\* parse_yaml_dict(body)['pri'], lines 158-161 and 311-313
StatsPri(body) == body[1]

\* _priority returned and release or bury follows (lines 326, 332)
Then(t) ==
    /\ th[t].pc = "ret"
    /\ th[t].then # NoCmd
    /\ LET c == [th[t].then EXCEPT !.pri = StatsPri(th[t].res.body)]
       IN th' = [th EXCEPT ![t] = [Interact(t, c) EXCEPT !.then = NoCmd]]
    /\ UNCHANGED <<connVars, tube, lock, reconnect_strategy, jobs, srvVars,
                   confirmed, faults, directs>>

\* the return of Connection.release or bury with Job.reserved left as it is
Consumed_keeps(t) ==
    /\ th[t].pc = "ret"
    /\ th[t].then = NoCmd
    /\ jobs' = [jobs EXCEPT ![th[t].h].reserved = th[t].op # "Job.delete" /\ @,
                            ![th[t].h].consumed = TRUE]
    /\ th' = [th EXCEPT ![t].pc = "done"]
    /\ UNCHANGED <<connVars, tube, lock, reconnect_strategy, srvVars,
                   confirmed, faults, directs>>

\* lines 321, 327, 333: self.reserved = False
Consumed(t) ==
    /\ th[t].pc = "ret"
    /\ th[t].then = NoCmd
    /\ jobs' = [jobs EXCEPT ![th[t].h].reserved = FALSE,
                            ![th[t].h].consumed = TRUE]
    /\ th' = [th EXCEPT ![t].pc = "done"]
    /\ UNCHANGED <<connVars, tube, lock, reconnect_strategy, srvVars,
                   confirmed, faults, directs>>

\* the caller has the outcome; the thread is free for its next call
Return(t) ==
    /\ th[t].pc = "done"
    /\ th' = [th EXCEPT ![t] = Idle]
    /\ UNCHANGED <<connVars, tube, lock, reconnect_strategy, jobs, srvVars,
                   confirmed, faults, directs>>

(***************************************************************************)
(* connect() and close() called directly.  Neither takes self.lock, so a   *)
(* direct call runs beside an _interact of another thread, and            *)
(* self._socket may change between two lines of either.  The actions below *)
(* are what the lines of connect, close and _interact do when it has.      *)
(***************************************************************************)
DirectConnect(t) ==
    /\ th[t].pc = "idle"
    /\ directs > 0
    /\ directs' = directs - 1
    /\ th' = [th EXCEPT ![t] = [Begin(t, "connect") EXCEPT !.pc = "connect"]]
    /\ UNCHANGED <<connVars, tube, lock, reconnect_strategy, jobs, srvVars,
                   confirmed, faults>>

DirectClose(t) ==
    /\ th[t].pc = "idle"
    /\ directs > 0
    /\ directs' = directs - 1
    /\ th' = [th EXCEPT ![t] = [Begin(t, "close") EXCEPT !.pc = "close",
                                                         !.was = closed]]
    /\ UNCHANGED <<connVars, tube, lock, reconnect_strategy, jobs, srvVars,
                   confirmed, faults>>

\* lines 93, 94, 107, 108, 123 with self._socket None, lines 137, 144 with
\* self._socket_file not yet set: AttributeError, which no except clause
\* catches (in close the finally clause runs first and leaves self._socket
\* None); it leaves connect, close and _interact
NoneSocket(t) ==
    /\ IF th[t].pc \in {"recv", "body"}
       THEN _socket_file = 0
       ELSE /\ th[t].pc \in {"c_connect", "c_finish", "send", "cl_quit",
                              "cl_close"}
            /\ closed
    /\ IF Direct(t)
       THEN /\ th' = [th EXCEPT ![t].pc = "done",
                                ![t].res.kind = "AttributeError",
                                ![t].res.interact = "AttributeError"]
            /\ UNCHANGED <<lock, jobs>>
       ELSE Exit(t, "AttributeError", NoReply)
    /\ UNCHANGED <<connVars, tube, reconnect_strategy, srvVars, confirmed,
                   faults, directs>>

\* line 93 on a socket that is connected or closed already, line 94 on a
\* closed one: socket.error, lines 98-100; one of the failures of the run
ConnectStale(t) ==
    /\ \/ th[t].pc = "c_connect" /\ ~closed /\ sockState[_socket] # "fresh"
       \/ th[t].pc = "c_finish" /\ ~closed /\ sockState[_socket] = "closed"
    /\ faults > 0
    /\ faults' = faults - 1
    /\ ConnectError(t)
    /\ UNCHANGED <<_socket_file, sockState, tube, lock, reconnect_strategy,
                   jobs, srvVars, confirmed, directs>>

\* line 123 on a socket that is not connected, or whose connection the
\* server has ended: socket.error, line 133
SendStale(t) ==
    /\ th[t].pc = "send"
    /\ ~closed
    /\ sockState[_socket] # "connected" \/ srvConn # _socket
    /\ th' = [th EXCEPT ![t].pc = "close", ![t].sends = @ + 1,
                        ![t].sock = _socket, ![t].fails = @ + 1]
    /\ UNCHANGED <<connVars, tube, lock, reconnect_strategy, jobs, srvVars,
                   confirmed, faults, directs>>

\* lines 124, 127 on the file of a connection that is over, with nothing
\* left to read: socket.error, line 133
RecvStale(t) ==
    /\ th[t].pc \in {"recv", "body"}
    /\ _socket_file # 0
    /\ ~Readable(t)
    /\ _socket_file # srvConn
    /\ th' = [th EXCEPT ![t].pc = "close", ![t].fails = @ + 1]
    /\ UNCHANGED <<connVars, tube, lock, reconnect_strategy, jobs, srvVars,
                   confirmed, faults, directs>>

\* line 107 on a socket that is not connected: socket.error, line 108 is
\* skipped
CloseQuitStale(t) ==
    /\ th[t].pc = "cl_quit"
    /\ ~closed
    /\ sockState[_socket] # "connected"
    /\ th' = [th EXCEPT ![t].pc = "cl_finally"]
    /\ UNCHANGED <<connVars, tube, lock, reconnect_strategy, jobs, srvVars,
                   confirmed, faults, directs>>

\* line 90: _current_wait_time raises OverflowError, which neither line 98
\* nor line 133 catches; it leaves connect and _interact
ConnOverflow(t) ==
    /\ th[t].pc = "c_create"
    /\ _current_wait_time_raises
    /\ IF Direct(t)
       THEN /\ th' = [th EXCEPT ![t].pc = "done",
                                ![t].res.kind = "OverflowError"]
            /\ UNCHANGED <<lock, jobs>>
       ELSE Exit(t, "OverflowError", NoReply)
    /\ UNCHANGED <<connVars, tube, reconnect_strategy, srvVars, confirmed,
                   faults, directs>>

(***************************************************************************)
(* The specifications.  Spec: one thread calls the public interface,       *)
(* Connection's and Job's, on the tube the Connection starts with.         *)
(* SpecTube: one thread changes the tube with use, between calls of stats  *)
(* and delete.  SpecThreads: several threads call use, stats,              *)
(* delete and reserve on the one Connection they share.  SpecDirect: one   *)
(* thread calls use, stats and delete while the other calls connect() and  *)
(* close().                                                                *)
(* SpecConnect: one thread calls connect() and stats() while the server    *)
(* refuses connections for as long as it likes.  SpecClose: one thread     *)
(* calls close() between its other calls.  SpecWire: one thread puts and   *)
(* reserves, with commands and responses as the bytes on the socket.       *)
(***************************************************************************)
\* the public interface of Connection, but for use
ConnectionCall(t) ==
    \/ Put(t) \/ Reserve(t) \/ Peek(t) \/ Delete(t) \/ Stats(t)

\* the public interface of Job, and what follows its _interact
JobCall(t) ==
    \/ \E h \in Handles :
         \/ JobDelete(t, h) \/ JobRelease(t, h) \/ JobBury(t, h)
         \/ JobTouch(t, h) \/ JobStats(t, h)
    \/ Then(t) \/ Consumed(t)

\* the steps of a call on its way through connect, _interact and close
Step(t) ==
    \/ Acquire(t)
    \/ ConnectEnter(t) \/ ConnCreate(t) \/ ConnConnectOk(t)
    \/ ConnConnectFail(t) \/ ConnFinish(t)
    \/ SendOk(t) \/ SendFail(t)
    \/ RecvOk(t) \/ RecvCommandFailed(t) \/ RecvUnexpected(t)
    \/ RecvFail(t) \/ ReadBodyOk(t) \/ ReadBodyFail(t)
    \/ CloseEnter(t) \/ CloseQuitOk(t) \/ CloseQuitFail(t)
    \/ CloseSocket(t) \/ CloseFinally(t)
    \/ Return(t)

Next ==
    \E t \in Threads :
       ConnectionCall(t) \/ JobCall(t) \/ Step(t)

Spec == Init /\ [][Next]_vars

\* use, and the calls that show which tube the server has: none of them
\* needs a job on the server
NextTube ==
    \E t \in Threads :
       Use(t) \/ Stats(t) \/ Delete(t) \/ Step(t)

SpecTube == Init /\ [][NextTube]_vars

\* the calls that need no job on the server: one that may get an unexpected
\* status, one with a body to read, one that fails, one that may block
NextThreads ==
    \E t \in Threads :
       Use(t) \/ Stats(t) \/ Delete(t) \/ Reserve(t) \/ Step(t)

SpecThreads == InitThreads /\ [][NextThreads]_vars

\* what a line does when self._socket has changed under it
Disturbed(t) ==
    \/ NoneSocket(t) \/ ConnectStale(t) \/ SendStale(t) \/ RecvStale(t)
    \/ CloseQuitStale(t)

\* the calls beside which the direct ones run: one that may get an
\* unexpected status, one with a body to read, one that may fail
NextDirect ==
    \E t \in Threads :
       \/ t = 1 /\ (Use(t) \/ Stats(t) \/ Delete(t))
       \/ t # 1 /\ (DirectConnect(t) \/ DirectClose(t))
       \/ Step(t) \/ Disturbed(t)

InitDirect ==
    /\ Constructed
    /\ faults = MaxFaults
    /\ directs = MaxDirect
    /\ th = [t \in Threads |-> Idle]

SpecDirect == InitDirect /\ [][NextDirect]_vars

\* the server is down for any number of attempts, then up
InitConnect ==
    /\ Constructed
    /\ faults = MaxExponent + 1
    /\ directs = MaxDirect
    /\ th = [t \in Threads |-> IF t = 1 THEN Idle ELSE Off]

NextConnect ==
    \E t \in Threads :
       \/ DirectConnect(t) \/ Stats(t)
       \/ Acquire(t) \/ ConnectEnter(t) \/ ConnCreate(t) \/ ConnConnectOk(t)
       \/ ConnConnectFail(t) \/ ConnFinish(t) \/ ConnOverflow(t)
       \/ SendOk(t) \/ RecvOk(t) \/ ReadBodyOk(t) \/ Return(t)

SpecConnect == InitConnect /\ [][NextConnect]_vars

\* one thread that uses the Connection and closes it, MaxCloses times, with
\* every failure close() can meet
InitClose ==
    /\ Constructed
    /\ faults = MaxFaults
    /\ directs = MaxCloses
    /\ th = [t \in Threads |-> IF t = 1 THEN Idle ELSE Off]

NextClose ==
    \E t \in Threads :
       \/ Use(t) \/ Stats(t) \/ Delete(t)
       \/ DirectClose(t) \/ CloseSocketFail(t) \/ Step(t)

SpecClose == InitClose /\ [][NextClose]_vars

(***************************************************************************)
(* The bytes on the socket.  A byte is a string: a letter, a digit, or     *)
(* one of SP, CR, LF.  Commands are formatted as put does at lines         *)
(* 182-184 and reserve at line 193; responses are read as _read_response   *)
(* (lines 136-141) and _read_body (lines 143-148) read them.               *)
(***************************************************************************)
SP == "SP"
CR == "CR"
LF == "LF"
CRLF == <<CR, LF>>
Whitespace == {SP, CR, LF}
Digits == <<"0", "1", "2", "3", "4", "5", "6", "7", "8", "9">>

\* the bodies put: every string of at most MaxBody bytes, CR and LF included
BodyBytes == {"a", CR, LF}
WireBodies == UNION {[1..n -> BodyBytes] : n \in 0..MaxBody}

\* '%d' % n for n >= 0
RECURSIVE Decimal(_)
Decimal(n) ==
    IF n < Len(Digits) THEN <<Digits[n + 1]>>
    ELSE Decimal(n \div Len(Digits)) \o <<Digits[(n % Len(Digits)) + 1]>>

\* int(token): defined on the tokens that are all digits, ValueError else
IsNumber(tok) ==
    /\ tok # <<>>
    /\ \A i \in DOMAIN tok : \E d \in DOMAIN Digits : Digits[d] = tok[i]
DigitValue(b) == (CHOOSE d \in DOMAIN Digits : Digits[d] = b) - 1
RECURSIVE int(_)
int(tok) ==
    IF Len(tok) = 1 THEN DigitValue(tok[1])
    ELSE Len(Digits) * int(SubSeq(tok, 1, Len(tok) - 1))
         + DigitValue(tok[Len(tok)])

\* the letters of the words of the protocol
Spell(w) ==
    CASE w = "put" -> <<"p", "u", "t">>
      [] w = "reserve" -> <<"r", "e", "s", "e", "r", "v", "e">>
      [] w = "INSERTED" -> <<"I", "N", "S", "E", "R", "T", "E", "D">>
      [] w = "RESERVED" -> <<"R", "E", "S", "E", "R", "V", "E", "D">>
      [] w = "DRAINING" -> <<"D", "R", "A", "I", "N", "I", "N", "G">>
Statuses == {"INSERTED", "RESERVED", "DRAINING"}
\* the status a token is; "?" for a token that is no status of the protocol
Name(tok) ==
    IF \E w \in Statuses : Spell(w) = tok
    THEN CHOOSE w \in Statuses : Spell(w) = tok
    ELSE "?"

\* s without its first n bytes
After(s, n) == SubSeq(s, n + 1, Len(s))
\* file.read(n): n bytes, or what is left before the end of the stream
read(s, n) == SubSeq(s, 1, IF n < Len(s) THEN n ELSE Len(s))
\* file.readline(): up to and including the first LF, or what is left
readline(s) ==
    IF \E i \in DOMAIN s : s[i] = LF
    THEN SubSeq(s, 1, MinOf({i \in DOMAIN s : s[i] = LF}))
    ELSE s
\* str.split(): the runs of bytes that are not whitespace
RECURSIVE split(_)
split(s) ==
    IF s = <<>> THEN <<>>
    ELSE IF s[1] \in Whitespace THEN split(Tail(s))
    ELSE LET n == IF \E i \in DOMAIN s : s[i] \in Whitespace
                  THEN MinOf({i \in DOMAIN s : s[i] \in Whitespace}) - 1
                  ELSE Len(s)
         IN <<SubSeq(s, 1, n)>> \o split(After(s, n))

\* lines 182-184: 'put %d %d %d %d\r\n%s\r\n' % (priority, delay, ttr,
\* len(body), body); line 193: 'reserve\r\n'
Command(c) ==
    IF c.name = "put"
    THEN Spell("put") \o <<SP>> \o Decimal(c.pri) \o <<SP>>
         \o Decimal(c.delay) \o <<SP>> \o Decimal(DEFAULT_TTR) \o <<SP>>
         \o Decimal(Len(c.body)) \o CRLF \o c.body \o CRLF
    ELSE Spell(c.name) \o CRLF


\* what beanstalkd takes from the bytes of a put: the priority from the
\* header line, and as the body the number of bytes the header declares
ServerPri(bytes) == int(split(readline(bytes))[2])
ServerBody(bytes) ==
    read(After(bytes, Len(readline(bytes))), int(split(readline(bytes))[5]))

\* the bytes of a response: the status line and, if framed, body and CRLF
RECURSIVE Args(_)
Args(a) == IF a = <<>> THEN <<>> ELSE <<SP>> \o Decimal(a[1]) \o Args(Tail(a))
Response(status, a, body, framed) ==
    Spell(status) \o Args(a) \o CRLF
    \o (IF framed THEN body \o CRLF ELSE <<>>)

\* The responses the server may write to the bytes of command c in state J,
\* each with the state it leaves; none for a reserve with no job ready.
WireReplies(c, J) ==
    IF c.name = "put"
    THEN IF Unborn(J) = {}
         THEN {[jobs |-> J, bytes |-> Response("DRAINING", <<>>, <<>>, FALSE)]}
         ELSE LET j == MinOf(Unborn(J))
              IN {[jobs |-> [J EXCEPT ![j] =
                                [st |-> "ready",
                                 pri |-> ServerPri(Command(c)),
                                 body |-> ServerBody(Command(c))]],
                   bytes |-> Response("INSERTED", <<j>>, <<>>, FALSE)]}
    ELSE {[jobs |-> [J EXCEPT ![j].st = "reserved"],
           bytes |-> Response("RESERVED", <<j, Len(J[j].body)>>,
                              J[j].body, TRUE)] :
             j \in {k \in JobIds : J[k].st = "ready"}}

\* an exception that carries no response
Raise(kind) == [kind |-> kind, status |-> "", results |-> <<>>, body |-> <<>>]

\* lines 136-141, on the bytes s the file object has left; rest: what it has
\* left after the line
_read_response(s) ==
    IF readline(s) = <<>> THEN [Raise("socket.error") EXCEPT !.body = s]
    ELSE IF split(readline(s)) = <<>>
    THEN [Raise("IndexError") EXCEPT !.body = s]
    ELSE [kind |-> "return",
          status |-> Name(Head(split(readline(s)))),
          results |-> Tail(split(readline(s))),
          body |-> After(s, Len(readline(s)))]

\* lines 143-148: the two bytes after the body are read and dropped, whatever
\* they are
_read_body(s, size) ==
    IF size > 0 /\ read(s, size) = <<>> THEN Raise("socket.error")
    ELSE [Raise("return") EXCEPT !.body = read(s, size)]

\* lines 124-130: what _interact makes of the bytes s that answer command c
_interact(c, s) ==
    LET r == _read_response(s)
        sf == size_field(c.name)
    IN IF r.kind # "return" THEN Raise(r.kind)
       ELSE IF r.status \in expected_ok(c.name)
       THEN IF sf = 0 THEN [r EXCEPT !.body = <<>>]
            ELSE IF Len(r.results) < sf THEN Raise("IndexError")
            ELSE IF ~IsNumber(r.results[sf]) THEN Raise("ValueError")
            ELSE IF _read_body(r.body, int(r.results[sf])).kind # "return"
            THEN Raise("socket.error")
            ELSE [r EXCEPT
                    !.body = _read_body(r.body, int(r.results[sf])).body]
       ELSE IF r.status \in expected_err(c.name)
       THEN [r EXCEPT !.kind = "CommandFailed", !.body = <<>>]
       ELSE [r EXCEPT !.kind = "UnexpectedResponse", !.body = <<>>]

\* put, lines 151 and 186: int(results[0]); reserve, lines 154-156:
\* jid, _, body = results and int(jid)
Returned(c, s) ==
    LET r == _interact(c, s)
    IN IF r.kind # "return" THEN r
       ELSE IF c.name = "put"
       THEN IF r.results = <<>> THEN Raise("IndexError")
            ELSE IF ~IsNumber(r.results[1]) THEN Raise("ValueError")
            ELSE [r EXCEPT !.results = <<int(r.results[1])>>]
       ELSE IF Len(r.results) # 2 \/ ~IsNumber(r.results[1])
       THEN Raise("ValueError")
       ELSE [r EXCEPT !.results = <<int(r.results[1]), int(r.results[2])>>]

\* the line readline() yields from s lacks its CRLF: the stream ended first
TruncatedLine(s) ==
    \/ Len(readline(s)) < Len(CRLF)
    \/ After(readline(s), Len(readline(s)) - Len(CRLF)) # CRLF

\* Connection.put, lines 176-186, with a body of any bytes
WirePut(t) ==
    /\ th[t].pc = "idle"
    /\ Unborn(srvJobs) # {}
    /\ \E body \in WireBodies, priority \in PutPriorities :
          th' = [th EXCEPT ![t] =
                    Starts(t, "put", Cmd("put", 0, priority, "", body))]
    /\ UNCHANGED <<connVars, tube, lock, reconnect_strategy, jobs, srvVars,
                   confirmed, faults, directs>>

\* Connection.reserve with timeout=None, lines 188-198
WireReserve(t) ==
    /\ th[t].pc = "idle"
    /\ Room
    /\ th' = [th EXCEPT ![t] =
                 Starts(t, "reserve", Cmd("reserve", 0, 0, "", <<>>))]
    /\ UNCHANGED <<connVars, tube, lock, reconnect_strategy, jobs, srvVars,
                   confirmed, faults, directs>>

\* line 123: the server reads the bytes of the command and writes its
\* response; the stream may end after any number of the response's bytes.
\* inflight.body: the bytes the file object has to yield; inflight.status:
\* whether they are the whole response; th[t].was: the line that
\* readline() will yield is a truncated one
WireSend(t) ==
    /\ th[t].pc = "send"
    /\ ~closed
    /\ sockState[_socket] = "connected"
    /\ srvConn = _socket
    /\ IF WireReplies(th[t].cmd, srvJobs) = {}
       THEN /\ inflight' = NoReply
            /\ th' = [th EXCEPT ![t].pc = "recv", ![t].sends = @ + 1,
                                ![t].sock = _socket]
            /\ UNCHANGED <<srvJobs, srvConn, faults>>
       ELSE \E o \in WireReplies(th[t].cmd, srvJobs) :
               \E cut \in 0..Len(o.bytes) :
                  /\ IF cut = Len(o.bytes)
                     THEN /\ srvJobs' = o.jobs
                          /\ UNCHANGED <<srvConn, faults>>
                     ELSE /\ faults > 0
                          /\ faults' = faults - 1
                          /\ srvJobs' = ServerDrop(o.jobs)
                          /\ srvConn' = 0
                  /\ inflight' = [sock |-> _socket,
                                  status |-> IF cut = Len(o.bytes)
                                             THEN "whole" ELSE "cut",
                                  results |-> <<>>,
                                  body |-> read(o.bytes, cut)]
                  /\ th' = [th EXCEPT
                              ![t].pc = "recv", ![t].sends = @ + 1,
                              ![t].sock = _socket,
                              ![t].was = TruncatedLine(read(o.bytes, cut))]
    /\ UNCHANGED <<connVars, tube, lock, reconnect_strategy, jobs, confirmed,
                   directs>>

\* line 123 or line 137 on a socket whose stream has ended: socket.error,
\* line 133
WireSendDead(t) ==
    /\ th[t].pc = "send"
    /\ ~closed
    /\ sockState[_socket] = "connected"
    /\ srvConn # _socket
    /\ th' = [th EXCEPT ![t].pc = "close", ![t].sends = @ + 1,
                        ![t].sock = _socket, ![t].fails = @ + 1]
    /\ UNCHANGED <<connVars, tube, lock, reconnect_strategy, jobs, srvVars,
                   confirmed, faults, directs>>

\* lines 124-132 on the bytes of the response
WireRecv(t) ==
    /\ th[t].pc = "recv"
    /\ _socket_file # 0
    /\ inflight.sock = _socket_file
    /\ inflight.status \in {"whole", "cut"}
    /\ LET r == Returned(th[t].cmd, inflight.body)
       IN IF r.kind = "socket.error"
          THEN /\ th' = [th EXCEPT ![t].pc = "close", ![t].fails = @ + 1]
               /\ UNCHANGED <<lock, jobs>>
          ELSE Exit(t, r.kind, Reply(r.status, r.results, r.body))
    /\ inflight' = NoReply
    /\ UNCHANGED <<connVars, tube, reconnect_strategy, srvJobs, srvConn,
                   confirmed, faults, directs>>

\* one thread that puts bodies of any bytes and reserves them, over a stream
\* that may end inside a response
InitWire ==
    /\ Constructed
    /\ faults = MaxFaults
    /\ directs = 0
    /\ th = [t \in Threads |-> IF t = 1 THEN Idle ELSE Off]

NextWire ==
    \E t \in Threads :
       \/ WirePut(t) \/ WireReserve(t)
       \/ Acquire(t) \/ ConnectEnter(t) \/ ConnCreate(t) \/ ConnConnectOk(t)
       \/ ConnFinish(t)
       \/ WireSend(t) \/ WireSendDead(t) \/ WireRecv(t)
       \/ CloseEnter(t) \/ CloseQuitOk(t) \/ CloseSocket(t)
       \/ CloseFinally(t)
       \/ Return(t)

SpecWire == InitWire /\ [][NextWire]_vars

\* a put or reserve that returned gave or got the body the server holds
BodiesAgree ==
    \A t \in Threads :
       th[t].pc = "done" /\ th[t].res.kind = "return" =>
          /\ th[t].op = "put" =>
                srvJobs[th[t].res.results[1]].body = th[t].cmd.body
          /\ th[t].op = "reserve" =>
                jobs[th[t].h].body = srvJobs[jobs[th[t].h].jid].body

\* While every response has arrived whole, bodies agree: the framing by
\* declared length carries CR and LF like any byte.
RoundTripWhole == faults = MaxFaults => BodiesAgree

\* With one thread, or with every thread under self.lock, no line of
\* connect, close or _interact finds self._socket changed, and with fewer
\* than MaxExponent failures _current_wait_time returns: Spec and
\* SpecThreads leave out nothing that can happen.
Undisturbed ==
    \A t \in Threads : ~ENABLED Disturbed(t) /\ ~ENABLED ConnOverflow(t)

(***************************************************************************)
(* Properties.                                                             *)
(***************************************************************************)
\* the lines of _interact inside `with self.lock` (120-134), with those of
\* the connect() and close() it calls
Cycle ==
    {"connect", "c_create", "c_connect", "c_finish", "send", "recv", "body",
     "close", "cl_quit", "cl_close", "cl_finally"}
InCycle(t) == th[t].pc \in Cycle /\ ~Direct(t)
\* line 123 has sent the command, lines 124-127 have not read its response
\* through
InFlight(t) == th[t].pc \in {"recv", "body"}
\* at a line that sends on the socket or reads from it (107, 123, 124, 127)
OnSocket(t) == th[t].pc \in {"send", "recv", "body", "cl_quit"}
\* the ways the spec lets a call of the public interface end
Ends == {"return", "CommandFailed", "DeadlineSoon", "UnexpectedResponse"}
\* a call of a public method other than connect() and close() has ended
Ended(t) == th[t].pc = "done" /\ ~Direct(t)

\* C1: while one thread is between the send of its command and the end of
\* the read of the response, body included, no other thread is at a line
\* that sends on or reads from the socket.
C1_OneInFlight ==
    \A t, u \in Threads : t # u /\ InFlight(t) => ~OnSocket(u)

\* a thread reads a body while the other waits for the lock
C1_Contended ==
    \E t, u \in Threads : t # u /\ th[t].pc = "body" /\ th[u].pc = "lock"

\* C2: every call of the public interface ends by a return, CommandFailed,
\* DeadlineSoon or UnexpectedResponse, however many stream failures its
\* interaction meets.
C2_EndsAsDeclared == \A t \in Threads : Ended(t) => th[t].res.kind \in Ends

\* C3: a thread holds the lock at every line of its interaction cycle, the
\* close and reconnect of a retry included, and once it has left the cycle,
\* by whatever exit, it holds it no more.
C3_LockHeldThroughCycle ==
    /\ \A t \in Threads : InCycle(t) => lock = t
    /\ lock # 0 => InCycle(lock)

\* a call that was resent after a stream failure has raised
\* UnexpectedResponse, and the other thread has the lock
C3_FreedAfterRaise ==
    \E t, u \in Threads :
       /\ t # u
       /\ Ended(t)
       /\ th[t].res.kind = "UnexpectedResponse"
       /\ th[t].sends > 1
       /\ lock = u

\* C4: the step that reads the response and leaves _interact returns the
\* results if the status is in expected_ok, raises CommandFailed with the
\* command's name, the status and the results if it is in expected_err, and
\* otherwise raises UnexpectedResponse and leaves the socket as it is: open
\* and connected.
C4_StatusDecides ==
    [][\A t \in Threads :
          InFlight(t) /\ Readable(t) /\ th'[t].pc \in {"ret", "done"} =>
             LET name == th[t].cmd.name
                 res == th'[t].res
                 told == /\ res.command = name
                         /\ res.status = inflight.status
                         /\ res.kind = res.interact
                                => res.results = inflight.results
             IN CASE inflight.status \in expected_ok(name) ->
                        res.interact = "return" /\ told
                  [] inflight.status \in expected_err(name) ->
                        res.interact = "CommandFailed" /\ told
                  [] OTHER ->
                        /\ res.interact = "UnexpectedResponse" /\ told
                        /\ UNCHANGED connVars
                        /\ _socket = th[t].sock
                        /\ sockState[_socket] = "connected"]_vars

\* UnexpectedResponse has been raised and the Connection is open, on the
\* socket the command went out on
C4_RaisedAndOpen ==
    \E t \in Threads :
       /\ Ended(t)
       /\ th[t].res.interact = "UnexpectedResponse"
       /\ ~closed
       /\ _socket = th[t].sock
       /\ sockState[_socket] = "connected"

\* C5: a connect() that has been left was left by a return, with the
\* Connection open and unsuccessful_connects 0.
C5_ReturnsOpen ==
    \A t \in Threads :
       th[t].op = "connect" /\ th[t].pc = "done" =>
          /\ th[t].res.kind = "return"
          /\ ~closed
          /\ unsuccessful_connects = 0

\* C6: a thread at a line that sends on self._socket (123, or 107 after the
\* test of line 104) finds the socket connected or the Connection closed.
C6_SocketAbsentOrReady ==
    \A t \in Threads :
       th[t].pc \in {"send", "cl_quit"} =>
          closed \/ sockState[_socket] = "connected"

\* C7: with no use call in flight self.tube is the tube of the last USING
\* response, or 'default' if there was none.
C7_TubeConfirmed ==
    (\A t \in Threads : th[t].op = "use" => th[t].pc \in {"idle", "done"})
       => tube = confirmed

\* C8: a use(name) calls _interact once if self.tube differed from name when
\* it was called, and otherwise not at all, sending nothing; from the call on
\* self.tube is name, so that a use of the same name that follows it sends
\* nothing.
C8_UseInteractsOnce ==
    \A t \in Threads :
       th[t].op = "use" =>
          /\ th[t].ints = IF th[t].was = th[t].arg THEN 0 ELSE 1
          /\ th[t].was = th[t].arg => th[t].sends = 0 /\ Ended(t)
          /\ th[t].ints = 1 => th[t].cmd.tube = th[t].arg
          /\ tube = th[t].arg

\* a use('x') after a use('x') the server confirmed has returned with
\* nothing sent
C8_SecondUse ==
    \E t \in Threads :
       /\ th[t].op = "use" /\ Ended(t)
       /\ th[t].arg = "x" /\ th[t].was = "x" /\ confirmed = "x"
       /\ th[t].ints = 0 /\ th[t].sends = 0

Forwards == {"Job.release", "Job.bury"}

\* C9 as the spec has it: after a release() or bury() the Job's reserved is
\* false (so that the next one sends nothing).
C9_FirstCallConsumes ==
    \A t \in Threads :
       th[t].op \in Forwards /\ Ended(t) => ~jobs[th[t].h].reserved

\* C9: a release() or bury() on a Job whose reserved is false sends nothing
\* and returns; on a reserved Job it forwards the command, and reserved is
\* false after it if it returned, and still true if it raised.
C9_ForwardedUntilConsumed ==
    \A t \in Threads :
       th[t].op \in Forwards =>
          /\ ~th[t].was => th[t].ints = 0 /\ th[t].sends = 0 /\ Ended(t)
          /\ th[t].was => th[t].ints >= 1
          /\ Ended(t) =>
                jobs[th[t].h].reserved
                   = (th[t].was /\ th[t].res.kind # "return")

\* a bury() on the Job that an earlier bury() consumed has returned with
\* nothing sent
C9_SecondCall ==
    \E t \in Threads :
       /\ th[t].op = "Job.bury" /\ Ended(t)
       /\ ~th[t].was /\ th[t].ints = 0 /\ th[t].sends = 0
       /\ srvJobs[jobs[th[t].h].jid].st = "buried"

\* C10 as the spec has it: after a delete() the Job's reserved is false.
C10_DeleteClearsReserved ==
    \A t \in Threads :
       th[t].op = "Job.delete" /\ Ended(t) => ~jobs[th[t].h].reserved

\* C10: a delete() forwards the command whether reserved is true or false;
\* reserved is false after it if it returned and as it was if it raised; on
\* a Job the server had deleted before the call it raises CommandFailed with
\* NOT_FOUND.
C10_DeleteForwards ==
    \A t \in Threads :
       th[t].op = "Job.delete" =>
          /\ th[t].ints = 1 /\ th[t].cmd.name = "delete"
          /\ th[t].cmd.jid = jobs[th[t].h].jid
          /\ Ended(t) =>
                /\ th[t].sends >= 1
                /\ jobs[th[t].h].reserved
                      = (th[t].was /\ th[t].res.kind # "return")
                /\ th[t].gone =>
                      /\ th[t].res.kind = "CommandFailed"
                      /\ th[t].res.command = "delete"
                      /\ th[t].res.status = "NOT_FOUND"

\* a delete() on a Job that is not reserved, whose id the server had deleted,
\* has raised CommandFailed with NOT_FOUND
C10_DeletedTwice ==
    \E t \in Threads :
       /\ th[t].op = "Job.delete" /\ Ended(t)
       /\ th[t].gone /\ ~th[t].was
       /\ th[t].res.kind = "CommandFailed"
       /\ th[t].res.status = "NOT_FOUND"


Mutating == {"Job.delete", "Job.release", "Job.bury"}
\* the thread is in a call that has not ended
Calling(t) == th[t].pc \notin {"idle", "off", "done"}

\* C11 as the spec has it: no delete, release or bury on a Job that one of
\* them has consumed gets as far as _interact.
C11_ConsumedRejected ==
    \A t \in Threads :
       th[t].op \in Mutating /\ Calling(t) => ~jobs[th[t].h].consumed

\* C11: on a Job that a delete, release or bury has consumed, release and
\* bury send nothing; the one call that still reaches _interact is delete,
\* with the delete command for the Job's id.
C11_ConsumedSendsOnlyDelete ==
    \A t \in Threads :
       /\ th[t].op \in Mutating /\ Calling(t) /\ jobs[th[t].h].consumed =>
             /\ th[t].op = "Job.delete"
             /\ th[t].cmd.name = "delete"
             /\ th[t].cmd.jid = jobs[th[t].h].jid
       /\ th[t].op \in Forwards /\ Ended(t) /\ ~th[t].was =>
             th[t].ints = 0 /\ th[t].sends = 0

\* a release() on a Job that an earlier call consumed has returned with
\* nothing sent
C11_RejectedLocally ==
    \E t \in Threads :
       /\ th[t].op = "Job.release" /\ Ended(t)
       /\ jobs[th[t].h].consumed /\ ~th[t].was
       /\ th[t].ints = 0 /\ th[t].sends = 0


\* C12: a release() or bury() on a reserved Job asks stats-job only if no
\* priority was given, and with a priority given, 0 included, the command
\* it sends carries that priority.
C12_StatsIffOmitted ==
    \A t \in Threads :
       th[t].op \in Forwards /\ th[t].was /\ th[t].arg # NoPriority =>
          /\ th[t].cmd.name # "stats-job"
          /\ th[t].cmd.pri = th[t].arg
          /\ th[t].ints = 1


\* C13: a touch() calls _interact, with the touch command for the Job's id,
\* if the Job's reserved is true, and sends nothing if it is false; through
\* the call and after it, returned or raised, reserved is what it was.
C13_TouchKeepsReserved ==
    \A t \in Threads :
       th[t].op = "Job.touch" =>
          /\ th[t].ints = IF th[t].was THEN 1 ELSE 0
          /\ th[t].was =>
                /\ th[t].cmd.name = "touch"
                /\ th[t].cmd.jid = jobs[th[t].h].jid
          /\ ~th[t].was => th[t].sends = 0 /\ Ended(t)
          /\ jobs[th[t].h].reserved = th[t].was
          /\ ~jobs[th[t].h].consumed \/ ~th[t].was

\* a touch() on a reserved Job has sent its command and returned, and the
\* Job is still reserved
C13_TouchedStillReserved ==
    \E t \in Threads :
       /\ th[t].op = "Job.touch" /\ Ended(t)
       /\ th[t].res.kind = "return" /\ th[t].sends >= 1
       /\ jobs[th[t].h].reserved /\ ~jobs[th[t].h].consumed


\* C14: reserve never ends with CommandFailed.  On RESERVED it returns a new
\* Job with reserved = True, the id and the body of the response; on
\* TIMED_OUT it returns None and makes no Job; on DEADLINE_SOON it raises
\* DeadlineSoon.
C14_ReserveOutcomes ==
    \A t \in Threads :
       th[t].op = "reserve" /\ Ended(t) =>
          /\ th[t].res.kind # "CommandFailed"
          /\ th[t].res.status = "RESERVED" =>
                /\ th[t].res.kind = "return"
                /\ th[t].h \in Handles
                /\ jobs[th[t].h] = [jid |-> th[t].res.results[1],
                                    body |-> th[t].res.body,
                                    reserved |-> TRUE, consumed |-> FALSE]
          /\ th[t].res.status = "TIMED_OUT" =>
                /\ th[t].res.kind = "return"
                /\ th[t].res.results = <<>>
                /\ th[t].h = 0
          /\ th[t].res.status = "DEADLINE_SOON" =>
                /\ th[t].res.kind = "DeadlineSoon"
                /\ th[t].h = 0

\* a reserve has raised DeadlineSoon while the Job of an earlier reserve is
\* still reserved
C14_DeadlineSoonRaised ==
    \E t \in Threads :
       /\ th[t].op = "reserve" /\ Ended(t)
       /\ th[t].res.kind = "DeadlineSoon"
       /\ th[t].res.status = "DEADLINE_SOON"
       /\ \E h \in Handles : jobs[h].reserved /\ jobs[h].body # <<>>


\* C15: close() called by the one thread that uses the Connection returns
\* without raising and leaves the Connection closed, also when quit cannot
\* be sent or the socket's close() fails; called on a closed Connection it
\* returns at once, without sending quit and without closing a socket.
C15_CloseEndsClosed ==
    \A t \in Threads :
       th[t].op = "close" =>
          /\ th[t].pc = "done" => closed /\ th[t].res.kind = "return"
          /\ th[t].was => closed /\ th[t].pc \in {"close", "done"}

\* the second of two close() calls has returned; the first one failed to
\* close the socket
C15_ClosedTwice ==
    \E t \in Threads :
       /\ th[t].op = "close" /\ th[t].pc = "done" /\ th[t].was
       /\ directs = 0
       /\ \E i \in DOMAIN sockState : sockState[i] = "connected"
       /\ th[t].res.kind = "return"


\* C16: the body of the Job a reserve returns is the body the server holds
\* for that job, and the body the server holds after a put is the body put,
\* byte for byte, CR and LF included.
C16_BodyRoundTrip == BodiesAgree

\* C19: a response line that the end of the stream cut short, after no byte
\* or after some, never decides how a call ends: the call goes on to close,
\* reconnect and send again, and ends neither by a return nor by
\* CommandFailed, UnexpectedResponse or any other exception made from that
\* line.
C19_TruncatedLineRetried ==
    \A t \in Threads :
       th[t].op \in {"put", "reserve"} /\ th[t].was =>
          /\ th[t].pc # "done"
          /\ th[t].res.kind = "none"

\* C17: with the exp_backoff strategy _current_wait_time returns, for every
\* value the counter of failed connects takes and every jitter, a time that
\* is at most upper_backoff_bound.
C17_WaitTimeBounded ==
    reconnect_strategy = "exp_backoff" =>
       \A r \in Jitters :
          /\ ~_current_wait_time(r).raises
          /\ _current_wait_time(r).time <= 10 * DEFAULT_UPPER_BACKOFF_BOUND

\* C18: when connect() has created a socket, every socket the Connection
\* created before it has been closed: at most the newest one is not.
C18_OneUnreleasedSocket ==
    \A i \in DOMAIN sockState :
       i # Len(sockState) => sockState[i] = "closed"

\* C20: every sendall of a call is made at line 123 on the connected socket
\* the Connection holds; a command sent again within one _interact goes out
\* on a socket created after the one it went out on before; the response
\* _interact returns was read on the socket of its last send, which is
\* still the Connection's, connected; and a call that ends has called
\* sendall once for each _interact plus once for each socket.error caught.
C20_SentOncePerIteration ==
    [][\A t \in Threads :
          /\ th'[t].sends # th[t].sends /\ th'[t].pc # "idle" =>
                /\ th'[t].sends = th[t].sends + 1
                /\ th[t].pc = "send"
                /\ th'[t].sock = _socket
                /\ sockState[_socket] = "connected"
          /\ th'[t].sends = th[t].sends + 1 /\ th[t].sends >= 1
             /\ th[t].ints = 1 =>
                th'[t].sock > th[t].sock
          /\ th[t].res.interact = "none" /\ th'[t].res.interact = "return" =>
                /\ inflight.sock = th[t].sock
                /\ th'[t].sock = th[t].sock
                /\ _socket' = th[t].sock
                /\ sockState'[_socket'] = "connected"
          /\ th[t].pc # "done" /\ th'[t].pc = "done" =>
                th'[t].sends = th'[t].ints + th'[t].fails
      ]_vars

====
